---- MODULE Spec2Model ----
(***************************************************************************)
(* Model of the domain core: the Order aggregate (status state machine,   *)
(* item management) over a heap of OrderItem objects and arrays, so that  *)
(* JavaScript reference sharing between caller and entity is visible; the *)
(* Customer entity; and the value objects Price, Email, OrderId,          *)
(* CustomerId and Currency, with the errors their checks throw.           *)
(***************************************************************************)
EXTENDS Integers, Sequences, FiniteSets, TLC

\* ------------------------------------------------------------------ bounds
\* longest array (item list) the model builds
MaxLen == 3
\* largest quantity an item may reach through merges
MaxQty == 6
\* number of times the caller reads order.items of one Order
MaxReads == 1
\* the largest finite number, standing for Number.MAX_VALUE
MaxNumber == 1000000000
\* number of Price objects the caller holds
MaxPrices == 2
\* longest string the caller writes
MaxChars == 6

\* ------------------------------------------------------------ domain types
OrderStatus == {"PENDING", "CONFIRMED", "SHIPPED", "DELIVERED", "CANCELLED"}

VALID_CURRENCIES == <<"USD", "EUR", "GBP", "JPY">>

\* a Price object: amount in cents, immutable
Price(amount, currency) == [amount |-> amount, currency |-> currency]

\* an OrderItem object literal
OrderItem(productId, productName, quantity, unitPrice) ==
    [productId |-> productId, productName |-> productName,
     quantity |-> quantity, unitPrice |-> unitPrice]

\* the item objects the caller has built (addresses 1..Len(ItemPool)):
\* the two sample items of the tests, a second object for prod-1 with a
\* different name and price, and an item with quantity zero in another currency
ItemPool ==
    << OrderItem("prod-1", "Product 1", 2, Price(1000, "EUR")),
       OrderItem("prod-2", "Product 2", 1, Price(2000, "EUR")),
       OrderItem("prod-1", "Product 1 bis", 3, Price(1500, "EUR")),
       OrderItem("prod-3", "Product 3", 0, Price(3000, "USD")) >>

ItemRefs == 1..Len(ItemPool)

\* the identifiers a caller may hand to reconstitute: an OrderId is a
\* pair (how it was obtained, which one), so that any two can be compared
KnownIds == {<<"known", 1>>}

\* the caller's variables that hold an Order (order1, order2 in the tests)
OrderRefs == {"order1", "order2"}

\* the caller's variables that hold a Customer (customer1, customer2 in the tests)
CustomerRefs == {"customer1", "customer2"}

\* no object
Null == [kind |-> "null"]

\* ------------------------------------------------------------------- state
VARIABLES
    recs,        \* heap of OrderItem objects: address -> record
    arrays,      \* heap of arrays: address -> sequence of item addresses
    callerLists, \* addresses of the arrays the caller holds a reference to
    orders,      \* the caller's Order variables: name -> Order object or Null
    generated,   \* number of identifiers produced by OrderId.generate
    history,     \* per Order variable: how it was built and the statuses it has had
    last,        \* the last call: method, receiver, argument, error, state before
    customers,   \* the caller's Customer variables: name -> Customer object or Null
    prices,      \* heap of Price objects the caller holds: address -> Price
    raw          \* the string the caller is writing, as a sequence of characters

vars == <<recs, arrays, callerLists, orders, generated, history, last,
          customers, prices, raw>>

\* ------------------------------------------------------------------ errors
NoError == [kind |-> "none"]

\* an omitted optional argument
Undefined == <<"undefined">>

\* new DomainError(message, context) of the subclass called name: this.name is
\* the constructor's name, the context is kept as given (the timestamp and the
\* stack trace are left out)
DomainError(name, message, context) ==
    [kind |-> name, message |-> message, context |-> context]

\* list.join(sep) of an array of strings
RECURSIVE Join(_, _)
Join(list, sep) ==
    IF list = << >> THEN ""
    ELSE IF Len(list) = 1 THEN list[1]
    ELSE list[1] \o sep \o Join(Tail(list), sep)

\* a test that takes the empty array for absent
TruthyWhenNotEmpty(allowedStates) ==
    allowedStates # Undefined /\ allowedStates # << >>

\* allowedStates ? ... : ... : an array, even an empty one, is truthy
Truthy(allowedStates) == allowedStates # Undefined

\* new InvalidStateError(entityName, currentState, attemptedAction, allowedStates?)
InvalidStateError(entityName, currentState, attemptedAction, allowedStates) ==
    LET message ==
            IF Truthy(allowedStates)
            THEN "Cannot " \o attemptedAction \o " " \o entityName
                 \o " in state '" \o currentState \o "'. Allowed states: "
                 \o Join(allowedStates, ", ")
            ELSE "Cannot " \o attemptedAction \o " " \o entityName
                 \o " in state '" \o currentState \o "'"
    IN  DomainError("InvalidStateError", message,
                    [entityName |-> entityName,
                     currentState |-> currentState,
                     attemptedAction |-> attemptedAction,
                     allowedStates |-> allowedStates])

\* new ValidationError(entityName, failures): the message lists the failures
\* as "field: message" joined with "; " after the entity name
ValidationError(entityName, failures) ==
    LET failureMessages ==
            Join([i \in 1..Len(failures) |->
                      failures[i].field \o ": " \o failures[i].message], "; ")
        error == DomainError("ValidationError",
                             "Validation failed for " \o entityName \o ": "
                                 \o failureMessages,
                             [entityName |-> entityName, failures |-> failures])
    IN  [kind |-> error.kind, message |-> error.message, context |-> error.context,
         failures |-> failures]

\* ValidationError.single(entityName, field, message, value?)
ValidationErrorSingle(entityName, field, message, value) ==
    ValidationError(entityName,
                    << [field |-> field, message |-> message, value |-> value] >>)

\* ----------------------------------------------------------------- helpers
\* the variables that hold an Order
Built == { o \in OrderRefs : orders[o] # Null }

\* this._items of order o, as item addresses
ItemsOf(o) == arrays[orders[o].items]

\* the records a sequence of item addresses points to in a heap
Deref(heap, items) == [i \in 1..Len(items) |-> heap[items[i]]]

\* what order.items shows: the item objects of order o, in order
ItemRecords(o) == Deref(recs, ItemsOf(o))

\* the receiver as it is when a call is made: status, item list, item objects
Snapshot(o) ==
    IF o \in Built
    THEN [status |-> orders[o].status, items |-> ItemsOf(o), recs |-> recs]
    ELSE Null

\* every Order variable as it is when a call is made
World == [x \in OrderRefs |-> Snapshot(x)]

\* what the caller observes of a call: the method, the receiver, the argument,
\* the error thrown, with the state the call was made in
Outcome(op, o, arg, err) ==
    [op |-> op, order |-> o, arg |-> arg, error |-> err, result |-> Null,
     pre |-> Snapshot(o), world |-> World, lists |-> arrays]

\* a call that returned a value
Returned(op, o, arg, value) ==
    [Outcome(op, o, arg, NoError) EXCEPT !.result = value]

NotBuilt ==
    [origin |-> "none", initial |-> << >>, trail |-> << >>,
     id |-> Null, customerEmail |-> Null, createdAt |-> 0,
     given |-> 0, returned |-> {}]

\* -------------------------------------------------------------------- Init
\* nothing has been built but the caller's item objects
Init ==
    /\ recs = ItemPool
    /\ arrays = << >>
    /\ callerLists = {}
    /\ orders = [o \in OrderRefs |-> Null]
    /\ generated = 0
    /\ history = [o \in OrderRefs |-> NotBuilt]
    /\ last = [op |-> "none", order |-> "none", arg |-> 0, error |-> NoError,
               result |-> Null, pre |-> Null,
               world |-> [x \in OrderRefs |-> Null], lists |-> << >>]
    /\ customers = [c \in CustomerRefs |-> Null]
    /\ prices = << >>
    /\ raw = << >>

\* sequences of item addresses of length 0..n
RECURSIVE ItemLists(_)
ItemLists(n) ==
    IF n = 0 THEN { << >> }
    ELSE LET shorter == ItemLists(n - 1)
         IN  shorter \cup { Append(s, r) : s \in { t \in shorter : Len(t) = n - 1 }, r \in ItemRefs }

\* the caller builds its array of item objects: const items = [a, b, ...]
CallerList(s) ==
    /\ callerLists = {}
    /\ arrays' = Append(arrays, s)
    /\ callerLists' = callerLists \cup {Len(arrays) + 1}
    /\ last' = Outcome("list", "none", 0, NoError)
    /\ UNCHANGED <<recs, orders, generated, history, customers, prices, raw>>

\* a generator that gives the same identifier every time
GenerateSameId(n) == <<"generated", 1>>

\* OrderId.generate(): crypto.randomUUID() taken as giving a value it has
\* not given before, the n-th call the n-th value
GenerateId(n) == <<"generated", n + 1>>

\* the Order constructor
NewOrder(id, customerEmail, items, status, createdAt) ==
    [kind |-> "Order", id |-> id, customerEmail |-> customerEmail,
     items |-> items, status |-> status, createdAt |-> createdAt]

\* a create without the length check
CreateRejectsNothing(items) == FALSE

\* Order.create rejects an empty item list
CreateRejects(items) == Len(items) = 0

\* [...items]: a new array with the same elements
SpreadCopy(heap, l) == Append(heap, heap[l])

\* an Order that keeps the array it was given
GivenList(l) == l

\* the array Order.create hands to the constructor: the copy just made
OwnList(l) == Len(arrays) + 1

\* the Order variable o starts its history: how the Order was built, from
\* which array, with which identifier
Begin(o, origin, l, status) ==
    [history EXCEPT ![o] = [origin |-> origin,
                            initial |-> Deref(recs, arrays[l]),
                            trail |-> <<status>>,
                            id |-> orders'[o].id,
                            customerEmail |-> orders'[o].customerEmail,
                            createdAt |-> orders'[o].createdAt,
                            given |-> l,
                            returned |-> {}]]

\* Order.create(customerEmail, items), the result assigned to the variable o;
\* now is the instant new Date() reads from the clock
Create(o, customerEmail, l, now) ==
    /\ orders[o] = Null
    /\ l \in callerLists
    /\ IF CreateRejects(arrays[l])
       THEN /\ last' = Outcome("create", o, l,
                         ValidationErrorSingle("Order", "items", "Order must have at least one item",
                                               Undefined))
            /\ UNCHANGED <<recs, arrays, callerLists, orders, generated, history, customers, prices, raw>>
       ELSE /\ arrays' = SpreadCopy(arrays, l)
            /\ orders' = [orders EXCEPT ![o] =
                              NewOrder(GenerateId(generated), customerEmail, OwnList(l),
                                       "PENDING", now)]
            /\ generated' = generated + 1
            /\ history' = Begin(o, "create", l, "PENDING")
            /\ last' = Outcome("create", o, l, NoError)
            /\ UNCHANGED <<recs, callerLists, customers, prices, raw>>

\* Order.reconstitute(id, customerEmail, items, status, createdAt), assigned to o
Reconstitute(o, id, customerEmail, l, status, createdAt) ==
    /\ orders[o] = Null
    /\ l \in callerLists
    /\ orders' = [orders EXCEPT ![o] = NewOrder(id, customerEmail, l, status, createdAt)]
    /\ history' = Begin(o, "reconstitute", l, status)
    /\ last' = Outcome("reconstitute", o, l, NoError)
    /\ UNCHANGED <<recs, arrays, callerLists, generated, customers, prices, raw>>

\* a guard placed after the write to the status instead of before it
ThrowAfterWrite(op, o, arg, err) ==
    /\ last' = Outcome(op, o, arg, err)
    /\ orders' = [orders EXCEPT ![o].status = "CANCELLED"]
    /\ UNCHANGED <<recs, arrays, callerLists, generated, history, customers, prices, raw>>

\* throw: the call ends with the error, no assignment after it runs
Throw(op, o, arg, err) ==
    /\ last' = Outcome(op, o, arg, err)
    /\ UNCHANGED <<recs, arrays, callerLists, orders, generated, history, customers, prices, raw>>

\* a transition that also empties the item list
SetStatusDroppingItems(op, o, st) ==
    /\ orders' = [orders EXCEPT ![o].status = st]
    /\ arrays' = [arrays EXCEPT ![orders[o].items] = << >>]
    /\ history' = [history EXCEPT ![o].trail = Append(@, st)]
    /\ last' = Outcome(op, o, 0, NoError)
    /\ UNCHANGED <<recs, callerLists, generated, customers, prices, raw>>

\* a transition that also stamps the Order with a later date
SetStatusStampingDate(op, o, st) ==
    /\ orders' = [orders EXCEPT ![o].status = st, ![o].createdAt = @ + 1]
    /\ history' = [history EXCEPT ![o].trail = Append(@, st)]
    /\ last' = Outcome(op, o, 0, NoError)
    /\ UNCHANGED <<recs, arrays, callerLists, generated, customers, prices, raw>>

\* this._status = st
SetStatus(op, o, st) ==
    /\ orders' = [orders EXCEPT ![o].status = st]
    /\ history' = [history EXCEPT ![o].trail = Append(@, st)]
    /\ last' = Outcome(op, o, 0, NoError)
    /\ UNCHANGED <<recs, arrays, callerLists, generated, customers, prices, raw>>

\* guards that let one status too many through
ShipThrowsLoose(status) == status \notin {"PENDING", "CONFIRMED"}
DeliverThrowsLoose(status) == status \notin {"CONFIRMED", "SHIPPED"}
CancelThrowsDeliveredNever(status) == FALSE
AddItemThrowsLoose(status) == status \notin {"PENDING", "CONFIRMED"}

\* a cancel that can be repeated
CancelThrowsCancelledNever(status) == FALSE

\* the guards of the state machine: whether the method throws in a status
ConfirmThrows(status) == status # "PENDING"
ShipThrows(status) == status # "CONFIRMED"
DeliverThrows(status) == status # "SHIPPED"
CancelThrowsDelivered(status) == status = "DELIVERED"
CancelThrowsCancelled(status) == status = "CANCELLED"
AddItemThrows(status) == status # "PENDING"

\* Order.confirm()
Confirm(o) ==
    /\ o \in Built
    /\ IF ConfirmThrows(orders[o].status)
       THEN Throw("confirm", o, 0,
                  InvalidStateError("Order", orders[o].status, "confirm", <<"PENDING">>))
       ELSE SetStatus("confirm", o, "CONFIRMED")

\* Order.ship()
Ship(o) ==
    /\ o \in Built
    /\ IF ShipThrows(orders[o].status)
       THEN Throw("ship", o, 0,
                  InvalidStateError("Order", orders[o].status, "ship", <<"CONFIRMED">>))
       ELSE SetStatus("ship", o, "SHIPPED")

\* Order.deliver()
Deliver(o) ==
    /\ o \in Built
    /\ IF DeliverThrows(orders[o].status)
       THEN Throw("deliver", o, 0,
                  InvalidStateError("Order", orders[o].status, "deliver", <<"SHIPPED">>))
       ELSE SetStatus("deliver", o, "DELIVERED")

\* the allowed-states list of the documentation's example
CancelAllowedStatesOfExample == <<"PENDING", "CONFIRMED">>

\* the allowed-states list cancel passes when the Order is DELIVERED
CancelAllowedStates == <<"PENDING", "CONFIRMED", "SHIPPED">>

\* Order.cancel()
Cancel(o) ==
    /\ o \in Built
    /\ IF CancelThrowsDelivered(orders[o].status)
       THEN Throw("cancel", o, 0,
                  InvalidStateError("Order", orders[o].status, "cancel",
                                    CancelAllowedStates))
       ELSE IF CancelThrowsCancelled(orders[o].status)
       THEN Throw("cancel", o, 0,
                  InvalidStateError("Order", orders[o].status, "cancel", Undefined))
       ELSE SetStatus("cancel", o, "CANCELLED")

\* this._items.findIndex(i => i.productId === productId): the first matching
\* index (0-based), -1 if there is none
FindIndex(items, heap, productId) ==
    LET hits == { i \in 1..Len(items) : heap[items[i]].productId = productId }
    IN  IF hits = {} THEN -1
        ELSE (CHOOSE i \in hits : \A j \in hits : i <= j) - 1

\* existingItem.quantity += item.quantity: the object after the statement
MergeInto(existingItem, item) ==
    [existingItem EXCEPT !.quantity = existingItem.quantity + item.quantity]

\* unshift instead of push
Unshift(items, item) == <<item>> \o items

\* this._items.push(item)
Push(items, item) == Append(items, item)

\* Order.addItem(item): item is the address of the object the caller passes
AddItem(o, item) ==
    /\ o \in Built
    /\ item \in DOMAIN recs
    /\ IF AddItemThrows(orders[o].status)
       THEN Throw("add items", o, item,
                  InvalidStateError("Order", orders[o].status, "add items", <<"PENDING">>))
       ELSE LET existingItemIndex == FindIndex(ItemsOf(o), recs, recs[item].productId)
            IN  IF existingItemIndex >= 0
                THEN LET existingItem == ItemsOf(o)[existingItemIndex + 1]
                         merged == MergeInto(recs[existingItem], recs[item])
                     IN  /\ merged.quantity <= MaxQty
                         /\ merged.quantity >= -MaxQty
                         /\ recs' = [recs EXCEPT ![existingItem] = merged]
                         /\ last' = Outcome("add items", o, item, NoError)
                         /\ UNCHANGED <<arrays, callerLists, orders, generated, history, customers, prices, raw>>
                ELSE /\ Len(ItemsOf(o)) < MaxLen
                     /\ arrays' = [arrays EXCEPT ![orders[o].items] = Push(@, item)]
                     /\ last' = Outcome("add items", o, item, NoError)
                     /\ UNCHANGED <<recs, callerLists, orders, generated, history, customers, prices, raw>>

\* a getter that hands out the internal array
LeakedList(o) == orders[o].items

\* the array the items getter returns: the copy just made
ReturnedList(o) == Len(arrays) + 1

\* order.items (getter): return [...this._items]
GetItems(o) ==
    /\ o \in Built
    /\ Cardinality(history[o].returned) < MaxReads
    /\ arrays' = SpreadCopy(arrays, orders[o].items)
    /\ callerLists' = callerLists \cup {ReturnedList(o)}
    /\ history' = [history EXCEPT ![o].returned = @ \cup {ReturnedList(o)}]
    /\ last' = Returned("items", o, 0, ReturnedList(o))
    /\ UNCHANGED <<recs, orders, generated, customers, prices, raw>>

\* order.status (getter): return this._status
GetStatus(o) ==
    /\ o \in Built
    /\ last' = Returned("status", o, 0, orders[o].status)
    /\ UNCHANGED <<recs, arrays, callerLists, orders, generated, history,
                   customers, prices, raw>>

\* the caller changes an array it holds: items.push(item)
CallerPush(l, item) ==
    /\ l \in callerLists
    /\ Len(arrays[l]) < MaxLen
    /\ arrays' = [arrays EXCEPT ![l] = Append(@, item)]
    /\ last' = Outcome("caller push", "none", l, NoError)
    /\ UNCHANGED <<recs, callerLists, orders, generated, history, customers, prices, raw>>

\* items.pop()
CallerPop(l) ==
    /\ l \in callerLists
    /\ Len(arrays[l]) > 0
    /\ arrays' = [arrays EXCEPT ![l] = SubSeq(@, 1, Len(@) - 1)]
    /\ last' = Outcome("caller pop", "none", l, NoError)
    /\ UNCHANGED <<recs, callerLists, orders, generated, history, customers, prices, raw>>

\* items.reverse()
CallerReverse(l) ==
    /\ l \in callerLists
    /\ arrays' = [arrays EXCEPT ![l] = [i \in 1..Len(@) |-> @[Len(@) + 1 - i]]]
    /\ last' = Outcome("caller reverse", "none", l, NoError)
    /\ UNCHANGED <<recs, callerLists, orders, generated, history, customers, prices, raw>>

\* an omitted context: { ...undefined } has no keys
NoContext == << >>

\* { ...context, ruleName }
WithRuleName(context, ruleName) ==
    [k \in DOMAIN context \cup {"ruleName"} |->
        IF k = "ruleName" THEN ruleName ELSE context[k]]

\* new BusinessRuleViolationError(ruleName, message, context?)
BusinessRuleViolationError(ruleName, message, context) ==
    LET error == DomainError("BusinessRuleViolationError",
                             "Business rule '" \o ruleName \o "' violated: " \o message,
                             WithRuleName(context, ruleName))
    IN  [kind |-> error.kind, message |-> error.message, context |-> error.context,
         ruleName |-> ruleName]

\* what a Price method gives is a Price or the error it threw
IsError(x) == "kind" \in DOMAIN x

\* --------------------------------------------------------------- numbers
\* a number is a whole count (of thousandths for an amount, of units for a
\* quantity) no larger than MaxNumber, or one of the values below, which
\* stand above every finite number. MaxNumber stands for Number.MAX_VALUE:
\* the counts up to MaxNumber / 1000 are the amounts themselves, the counts
\* above it stand for the doubles of the magnitude of Number.MAX_VALUE (the
\* count x for x / MaxNumber of it)
Infinity == MaxNumber + 1
NaN == MaxNumber + 2
\* a quantity with a fractional part, such as 2.5
Fraction == MaxNumber + 3

\* Number.isFinite(x)
IsFinite(x) == -MaxNumber <= x /\ x <= MaxNumber

\* Number.isInteger(quantity)
IsInteger(quantity) == IsFinite(quantity)

\* a double of the magnitude of Number.MAX_VALUE
IsHuge(x) == IsFinite(x) /\ x > MaxNumber \div 1000

\* x + y for two amounts (finite and not negative, or Infinity): a double of
\* the magnitude of Number.MAX_VALUE absorbs an ordinary addend, whose value
\* is far below half the distance between such doubles
Plus(x, y) ==
    IF ~IsFinite(x) \/ ~IsFinite(y) THEN Infinity
    ELSE IF IsHuge(x) /\ ~IsHuge(y) THEN x
    ELSE IF IsHuge(y) /\ ~IsHuge(x) THEN y
    ELSE IF x > MaxNumber - y THEN Infinity
    ELSE x + y

\* x * quantity for an amount and a whole quantity that is not negative
Times(x, quantity) ==
    IF quantity = 0 THEN (IF IsFinite(x) THEN 0 ELSE NaN)
    ELSE IF ~IsFinite(x) THEN Infinity
    ELSE IF x > MaxNumber \div quantity THEN Infinity
    ELSE x * quantity

\* the binary exponent e of the double nearest to thousandths / 1000:
\* 2^e <= thousandths / 1000 < 2^(e+1), for thousandths > 0
RECURSIVE Log2(_)
Log2(n) == IF n < 2 THEN 0 ELSE 1 + Log2(n \div 2)

RECURSIVE ShiftsBelowOne(_)
ShiftsBelowOne(thousandths) ==
    IF thousandths >= 1000 THEN 0 ELSE 1 + ShiftsBelowOne(2 * thousandths)

Exponent(thousandths) ==
    IF thousandths >= 1000
    THEN Log2(thousandths \div 1000)
    ELSE -ShiftsBelowOne(thousandths)

RECURSIVE Pow2(_)
Pow2(n) == IF n = 0 THEN 1 ELSE 2 * Pow2(n - 1)

RECURSIVE Pow2Mod1000(_)
Pow2Mod1000(n) == IF n = 0 THEN 1 ELSE (2 * Pow2Mod1000(n - 1)) % 1000

\* what the 53-bit significand of the double nearest to thousandths / 1000
\* leaves out, in thousandths of its last bit: (thousandths * 2^(52-e)) mod 1000
Remainder(thousandths) ==
    ((thousandths % 1000) * Pow2Mod1000(52 - Exponent(thousandths))) % 1000

\* the significand of the double is below 1.28, so that its hundredfold has
\* the exponent e + 6 and a last bit worth 64 last bits of the double
HundredfoldKeepsSixBits(thousandths) ==
    LET e == Exponent(thousandths)
    IN  IF e >= 0
        THEN thousandths < 1280 * Pow2(e)
        ELSE thousandths * Pow2(-e) < 1280

\* amount * 100, for an amount written with a half cent (thousandths ending
\* in 5), is the double just below the half: the double nearest to the
\* amount is below it by more than 0.32 of its last bit, and the product,
\* below the half by more than 32 such bits, is not rounded back to the half
ProductBelowHalf(thousandths) ==
    /\ HundredfoldKeepsSixBits(thousandths)
    /\ Remainder(thousandths) > 320
    /\ Remainder(thousandths) < 500

\* Math.round(amount * 100) / 100 for an amount counted in thousandths, on
\* doubles: the nearest number of cents; an amount written with a half cent
\* goes up unless amount * 100 falls below the half (1.005 * 100 is
\* 100.49999999999999); amount * 100 beyond the largest number is Infinity
\* and stays so
RoundToCents(thousandths) ==
    IF thousandths > MaxNumber \div 100 THEN Infinity
    ELSE IF IsHuge(thousandths) \/ thousandths % 10 # 5 THEN (thousandths + 5) \div 10
    ELSE IF ProductBelowHalf(thousandths) THEN thousandths \div 10
    ELSE thousandths \div 10 + 1

\* !Number.isFinite(amount) || amount < 0
AmountRejected(thousandths) == ~IsFinite(thousandths) \/ thousandths < 0

\* Price.create(amount, currency), the amount counted in thousandths; the
\* Price it builds holds cents
PriceCreate(thousandths, currency) ==
    IF AmountRejected(thousandths)
    THEN ValidationErrorSingle("Price", "amount", "Must be a positive finite number",
                               thousandths)
    ELSE Price(RoundToCents(thousandths), currency)

\* price.amount as a number, in thousandths
Amount(price) == IF IsFinite(price.amount) THEN 10 * price.amount ELSE price.amount

\* price.add(other)
PriceAdd(price, other) ==
    IF price.currency # other.currency
    THEN BusinessRuleViolationError("CurrencyMatch",
                                    "Cannot add prices with different currencies",
                                    [currency1 |-> price.currency,
                                     currency2 |-> other.currency])
    ELSE PriceCreate(Plus(Amount(price), Amount(other)), price.currency)

\* price.multiply(quantity)
PriceMultiply(price, quantity) ==
    IF ~IsInteger(quantity) \/ quantity < 0
    THEN ValidationErrorSingle("Price", "quantity", "Must be a positive integer",
                               quantity)
    ELSE PriceCreate(Times(Amount(price), quantity), price.currency)

\* the loop of calculateTotal from index i (1-based) with the total so far;
\* an error thrown by multiply or add ends the call
RECURSIVE TotalFrom(_, _, _)
TotalFrom(total, items, i) ==
    IF i > Len(items)
    THEN total
    ELSE LET itemTotal == PriceMultiply(items[i].unitPrice, items[i].quantity)
         IN  IF IsError(itemTotal)
             THEN itemTotal
             ELSE LET sum == PriceAdd(total, itemTotal)
                  IN  IF IsError(sum) THEN sum ELSE TotalFrom(sum, items, i + 1)

\* calculateTotal over the item objects of the Order
Total(items) ==
    IF Len(items) = 0
    THEN PriceCreate(0, "USD")
    ELSE LET total == PriceMultiply(items[1].unitPrice, items[1].quantity)
         IN  IF IsError(total) THEN total ELSE TotalFrom(total, items, 2)

\* order.calculateTotal()
CalculateTotal(o) ==
    /\ o \in Built
    /\ last' = IF IsError(Total(ItemRecords(o)))
               THEN Outcome("calculateTotal", o, 0, Total(ItemRecords(o)))
               ELSE Returned("calculateTotal", o, 0, Total(ItemRecords(o)))
    /\ UNCHANGED <<recs, arrays, callerLists, orders, generated, history, customers, prices, raw>>

\* the quantities the caller writes into an item object
CallerQuantities == {-1, 5}

\* item.quantity = quantity, on an item object the caller holds
CallerSetQuantity(item, quantity) ==
    /\ item \in DOMAIN recs
    /\ recs[item].quantity # quantity
    /\ recs' = [recs EXCEPT ![item].quantity = quantity]
    /\ last' = Outcome("caller set quantity", "none", item, NoError)
    /\ UNCHANGED <<arrays, callerLists, orders, generated, history, customers, prices, raw>>

\* an equals that compares the Orders field by field
DeepEquals(a, b) == orders[a] = orders[b]

\* orderId.equals(other): this.value === other.value
OrderIdEquals(id, other) == id = other

\* order.equals(other): this.id.equals(other.id)
OrderEquals(a, b) == OrderIdEquals(orders[a].id, orders[b].id)

\* a.equals(b), a and b two Order variables of the caller
Equals(a, b) ==
    /\ a \in Built
    /\ b \in Built
    /\ last' = Returned("equals", a, b, OrderEquals(a, b))
    /\ UNCHANGED <<recs, arrays, callerLists, orders, generated, history, customers, prices, raw>>

\* ----------------------------------------------------------------- strings
\* a string is the sequence of its characters
Whitespace == {" "}

\* value.trim(): the string without its leading and trailing whitespace
RECURSIVE TrimStart(_)
TrimStart(str) ==
    IF Len(str) > 0 /\ Head(str) \in Whitespace THEN TrimStart(Tail(str)) ELSE str

RECURSIVE TrimEnd(_)
TrimEnd(str) ==
    IF Len(str) > 0 /\ str[Len(str)] \in Whitespace
    THEN TrimEnd(SubSeq(str, 1, Len(str) - 1))
    ELSE str

Trim(str) == TrimEnd(TrimStart(str))

\* value.toLowerCase(), over the letters the model writes
LowerChar(c) == IF c = "A" THEN "a" ELSE IF c = "B" THEN "b" ELSE c

\* a toLowerCase that does nothing
KeepCase(str) == str

ToLowerCase(str) == [i \in 1..Len(str) |-> LowerChar(str[i])]

\* new Error(message): an error outside the taxonomy of the domain
GenericError(message) == [kind |-> "Error", message |-> message]

\* ---------------------------------------------------------------- customers
\* the Customer constructor; born keeps how, with which id and with which
\* date it was built
NewCustomer(id, name, email, isActive, createdAt, origin) ==
    [kind |-> "Customer", id |-> id, name |-> name, email |-> email,
     isActive |-> isActive, createdAt |-> createdAt,
     born |-> [origin |-> origin, id |-> id, createdAt |-> createdAt]]

\* the variables that hold a Customer
BuiltCustomers == { c \in CustomerRefs : customers[c] # Null }

\* what the caller observes of a call on a Customer, with the Customers as
\* they are when the call is made
CustomerOutcome(op, c, arg, err) ==
    [op |-> op, customer |-> c, arg |-> arg, error |-> err, result |-> Null,
     before |-> customers]

CustomerReturned(op, c, arg, value) ==
    [CustomerOutcome(op, c, arg, NoError) EXCEPT !.result = value]

\* a Customer method that throws: nothing after the throw runs
CustomerThrow(op, c, arg, err) ==
    /\ last' = CustomerOutcome(op, c, arg, err)
    /\ UNCHANGED <<recs, arrays, callerLists, orders, generated, history,
                   customers, prices, raw>>

\* !name || name.trim().length === 0
NameIsEmpty(name) == Len(name) = 0 \/ Len(Trim(name)) = 0

\* CustomerId.create(value): the CustomerId or the error thrown
CustomerIdCreate(value) ==
    IF NameIsEmpty(value)
    THEN GenericError("CustomerId cannot be empty")
    ELSE [value |-> value]

\* CustomerId.generate(): crypto.randomUUID() taken as giving a value it
\* has not given before
GenerateCustomerId(n) == <<"generated", n + 1>>

\* Customer.create(name, email), the result assigned to the variable c; now
\* is the instant new Date() reads from the clock
CreateCustomer(c, name, email, now) ==
    /\ customers[c] = Null
    /\ IF NameIsEmpty(name)
       THEN CustomerThrow("Customer.create", c, name,
                ValidationErrorSingle("Customer", "name", "Customer name cannot be empty",
                                      Undefined))
       ELSE /\ customers' = [customers EXCEPT ![c] =
                  NewCustomer(GenerateCustomerId(generated), Trim(name), email, TRUE,
                              now, "create")]
            /\ generated' = generated + 1
            /\ last' = CustomerOutcome("Customer.create", c, name, NoError)
            /\ UNCHANGED <<recs, arrays, callerLists, orders, history, prices, raw>>

\* Customer.reconstitute(id, name, email, isActive, createdAt)
ReconstituteCustomer(c, id, name, email, isActive, createdAt) ==
    /\ customers[c] = Null
    /\ customers' = [customers EXCEPT ![c] =
                        NewCustomer(id, name, email, isActive, createdAt, "reconstitute")]
    /\ last' = CustomerOutcome("Customer.reconstitute", c, name, NoError)
    /\ UNCHANGED <<recs, arrays, callerLists, orders, generated, history, prices, raw>>

\* an updateName that stores the name as given
NewNameAsGiven(newName) == newName

\* the name updateName stores
NewName(newName) == Trim(newName)

\* customer.updateName(newName)
UpdateName(c, newName) ==
    /\ c \in BuiltCustomers
    /\ IF NameIsEmpty(newName)
       THEN CustomerThrow("updateName", c, newName,
                ValidationErrorSingle("Customer", "name", "Customer name cannot be empty",
                                      Undefined))
       ELSE /\ customers' = [customers EXCEPT ![c].name = NewName(newName)]
            /\ last' = CustomerOutcome("updateName", c, newName, NoError)
            /\ UNCHANGED <<recs, arrays, callerLists, orders, generated, history,
                           prices, raw>>

\* an updateEmail that only an active Customer accepts
UpdateEmailWhenActive(c, newEmail) ==
    /\ c \in BuiltCustomers
    /\ IF ~customers[c].isActive
       THEN CustomerThrow("updateEmail", c, newEmail,
                InvalidStateError("Customer", "inactive", "update email", Undefined))
       ELSE /\ customers' = [customers EXCEPT ![c].email = newEmail]
            /\ last' = CustomerOutcome("updateEmail", c, newEmail, NoError)
            /\ UNCHANGED <<recs, arrays, callerLists, orders, generated, history,
                           prices, raw>>

\* customer.updateEmail(newEmail)
UpdateEmail(c, newEmail) ==
    /\ c \in BuiltCustomers
    /\ customers' = [customers EXCEPT ![c].email = newEmail]
    /\ last' = CustomerOutcome("updateEmail", c, newEmail, NoError)
    /\ UNCHANGED <<recs, arrays, callerLists, orders, generated, history, prices, raw>>

\* a deactivate without its guard
DeactivateThrowsNever(isActive) == FALSE

DeactivateThrows(isActive) == ~isActive
ActivateThrows(isActive) == isActive

\* this._isActive = value
SetActive(op, c, value) ==
    /\ customers' = [customers EXCEPT ![c].isActive = value]
    /\ last' = CustomerOutcome(op, c, 0, NoError)
    /\ UNCHANGED <<recs, arrays, callerLists, orders, generated, history, prices, raw>>

\* customer.deactivate()
Deactivate(c) ==
    /\ c \in BuiltCustomers
    /\ IF DeactivateThrows(customers[c].isActive)
       THEN CustomerThrow("deactivate", c, 0,
                InvalidStateError("Customer", "inactive", "deactivate", Undefined))
       ELSE SetActive("deactivate", c, FALSE)

\* customer.activate()
Activate(c) ==
    /\ c \in BuiltCustomers
    /\ IF ActivateThrows(customers[c].isActive)
       THEN CustomerThrow("activate", c, 0,
                InvalidStateError("Customer", "active", "activate", Undefined))
       ELSE SetActive("activate", c, TRUE)

\* an equals that compares the Customers field by field
CustomerDeepEquals(a, b) ==
    /\ customers[a].id = customers[b].id
    /\ customers[a].name = customers[b].name
    /\ customers[a].email = customers[b].email
    /\ customers[a].isActive = customers[b].isActive

\* customerId.equals(other): this.value === other.value
CustomerIdEquals(id, other) == id = other

\* customer.equals(other): this.id.equals(other.id)
CustomerEquals(a, b) == CustomerIdEquals(customers[a].id, customers[b].id)

\* a.equals(b), a and b two Customer variables of the caller
EqualsCustomer(a, b) ==
    /\ a \in BuiltCustomers
    /\ b \in BuiltCustomers
    /\ last' = CustomerReturned("Customer.equals", a, b, CustomerEquals(a, b))
    /\ UNCHANGED <<recs, arrays, callerLists, orders, generated, history,
                   customers, prices, raw>>

\* the call CustomerId.create(value)
CreateCustomerId(value) ==
    /\ last' = IF "kind" \in DOMAIN CustomerIdCreate(value)
               THEN CustomerOutcome("CustomerId.create", "none", value, CustomerIdCreate(value))
               ELSE CustomerReturned("CustomerId.create", "none", value, CustomerIdCreate(value))
    /\ UNCHANGED <<recs, arrays, callerLists, orders, generated, history,
                   customers, prices, raw>>

\* isCurrency(value): VALID_CURRENCIES.includes(value)
IsCurrency(value) == \E i \in 1..Len(VALID_CURRENCIES) : VALID_CURRENCIES[i] = value

\* the call assertCurrency(value)
AssertCurrency(value) ==
    /\ last' = IF IsCurrency(value)
               THEN CustomerOutcome("assertCurrency", "none", value, NoError)
               ELSE CustomerOutcome("assertCurrency", "none", value,
                                    GenericError("Invalid currency: " \o value
                                                 \o ". Valid currencies are: "
                                                 \o Join(VALID_CURRENCIES, ", ")))
    /\ UNCHANGED <<recs, arrays, callerLists, orders, generated, history,
                   customers, prices, raw>>

\* ------------------------------------------------------------------ prices
\* what the caller observes of a call of Price: the method, the receiver
\* (an address, 0 for the factory), the argument, and what the call gave --
\* a Price or the error thrown -- with the Price objects as they are when
\* the call is made
PriceOutcome(op, a, arg, given) ==
    [op |-> op, price |-> a, arg |-> arg,
     error |-> IF IsError(given) THEN given ELSE NoError,
     result |-> IF IsError(given) THEN Null ELSE given,
     before |-> prices]

\* the caller keeps the Price a call returned, while it has room for it
Keep(given) ==
    IF IsError(given) \/ Len(prices) >= MaxPrices THEN prices ELSE Append(prices, given)

\* a call of Price: no Price object is written, the result is a new one
PriceCall(op, a, arg, given) ==
    /\ prices' = Keep(given)
    /\ last' = PriceOutcome(op, a, arg, given)
    /\ UNCHANGED <<recs, arrays, callerLists, orders, generated, history,
                   customers, raw>>

\* Price.create(amount, currency)
CreatePrice(amount, currency) ==
    PriceCall("Price.create", 0, [amount |-> amount, currency |-> currency],
              PriceCreate(amount, currency))

\* a.add(b), a and b Price objects the caller holds
AddPrices(a, b) ==
    /\ a \in DOMAIN prices
    /\ b \in DOMAIN prices
    /\ PriceCall("add", a, b, PriceAdd(prices[a], prices[b]))

\* a.multiply(quantity)
MultiplyPrice(a, quantity) ==
    /\ a \in DOMAIN prices
    /\ PriceCall("multiply", a, quantity, PriceMultiply(prices[a], quantity))

\* ------------------------------------------------------------------ emails
\* [^\s@]: a character that is neither whitespace nor an at sign
Plain(c) == c \notin Whitespace \cup {"@"}

\* /^[^\s@]+@[^\s@]+\.[^\s@]+$/.test(str): an at sign at i and a dot at j,
\* something plain before the at sign, between the two and after the dot,
\* and nothing but plain characters besides the at sign
MatchesEmailRegex(str) ==
    \E i \in 1..Len(str), j \in 1..Len(str) :
        /\ str[i] = "@"
        /\ str[j] = "."
        /\ 1 < i /\ i + 1 < j /\ j < Len(str)
        /\ \A k \in (1..Len(str)) \ {i} : Plain(str[k])

\* the Email constructor
Email(value) == [value |-> value]

\* Email.create(value): the Email or the error thrown
EmailCreate(value) ==
    LET trimmed == ToLowerCase(Trim(value))
    IN  IF Len(trimmed) = 0
        THEN ValidationErrorSingle("Email", "value", "Email cannot be empty", Undefined)
        ELSE IF ~MatchesEmailRegex(trimmed)
        THEN ValidationErrorSingle("Email", "value", "Invalid email format", value)
        ELSE Email(trimmed)

\* email.equals(other): this.value === other.value
EmailEquals(email, other) == email.value = other.value

\* what the caller observes of a call of Email: the method, the arguments,
\* and what the call gave
EmailOutcome(op, arg, given) ==
    [op |-> op, arg |-> arg,
     error |-> IF IsError(given) THEN given ELSE NoError,
     result |-> IF IsError(given) THEN Null ELSE given]

\* a call of Email: nothing is written
EmailCall(op, arg, given) ==
    /\ last' = EmailOutcome(op, arg, given)
    /\ UNCHANGED <<recs, arrays, callerLists, orders, generated, history,
                   customers, prices, raw>>

\* the caller writes one more character of the string
Type(c) ==
    /\ Len(raw) < MaxChars
    /\ raw' = Append(raw, c)
    /\ last' = EmailOutcome("type", c, Null)
    /\ UNCHANGED <<recs, arrays, callerLists, orders, generated, history,
                   customers, prices>>

\* Email.create(raw)
CreateEmail ==
    EmailCall("Email.create", raw, EmailCreate(raw))

\* Email.create(e.value) for e = Email.create(raw)
CreateEmailAgain ==
    /\ ~IsError(EmailCreate(raw))
    /\ EmailCall("Email.create(e.value)", EmailCreate(raw).value,
                 EmailCreate(EmailCreate(raw).value))

\* Email.create(raw).equals(Email.create(other))
CompareEmails(other) ==
    /\ ~IsError(EmailCreate(raw))
    /\ ~IsError(EmailCreate(other))
    /\ last' = [op |-> "Email.equals", arg |-> <<raw, other>>, error |-> NoError,
                result |-> EmailEquals(EmailCreate(raw), EmailCreate(other))]
    /\ UNCHANGED <<recs, arrays, callerLists, orders, generated, history,
                   customers, prices, raw>>

\* the caller constructs an InvalidStateError and reads it
NewInvalidStateError(entityName, currentState, attemptedAction, allowedStates) ==
    /\ last' = [op |-> "new InvalidStateError",
                arg |-> [entityName |-> entityName,
                         currentState |-> currentState,
                         attemptedAction |-> attemptedAction,
                         allowedStates |-> allowedStates],
                error |-> NoError,
                result |-> InvalidStateError(entityName, currentState,
                                             attemptedAction, allowedStates)]
    /\ UNCHANGED <<recs, arrays, callerLists, orders, generated, history,
                   customers, prices, raw>>

\* the Email and the date the caller builds its entities with
TestEmail == Email(<<"a", "@", "a", ".", "a">>)
TestDate == 1

\* the Order variables the caller uses in Spec
SpecOrders == {"order1"}

Next ==
    \/ \E s \in ItemLists(MaxLen) : CallerList(s)
    \/ \E o \in SpecOrders, l \in callerLists : Create(o, TestEmail, l, TestDate)
    \/ \E o \in SpecOrders, id \in KnownIds, l \in callerLists, st \in OrderStatus :
            Reconstitute(o, id, TestEmail, l, st, TestDate)
    \/ \E o \in SpecOrders : Confirm(o)
    \/ \E o \in SpecOrders : Ship(o)
    \/ \E o \in SpecOrders : Deliver(o)
    \/ \E o \in SpecOrders : Cancel(o)
    \/ \E o \in SpecOrders, item \in ItemRefs : AddItem(o, item)

Spec == Init /\ [][Next]_vars

\* the caller and one Order, with the arrays that pass between them: the array
\* given to create or reconstitute and the arrays the items getter returns
\* the first n of the caller's item objects, as the tests' sampleItems
SampleItems(n) == [i \in 1..n |-> i]

\* the item object the caller adds: the last one built
NewItem == Len(ItemPool)

\* the arrays the items getter has returned to the caller
ReturnedLists == UNION { history[o].returned : o \in OrderRefs }

NextLists ==
    \/ \E n \in 0..(MaxLen - 1) : CallerList(SampleItems(n))
    \/ \E o \in SpecOrders, l \in callerLists : Create(o, TestEmail, l, TestDate)
    \/ \E o \in SpecOrders, id \in KnownIds, l \in callerLists :
            Reconstitute(o, id, TestEmail, l, "PENDING", TestDate)
    \/ \E o \in SpecOrders : GetItems(o)
    \/ \E l \in ReturnedLists : CallerPush(l, NewItem)
    \/ \E l \in ReturnedLists : CallerPop(l)
    \/ \E l \in ReturnedLists : CallerReverse(l)
    \/ \E o \in SpecOrders : AddItem(o, NewItem)

SpecLists == Init /\ [][NextLists]_vars

\* the caller, one Order and the array the Order was built from
NextGiven ==
    \/ \E n \in 0..(MaxLen - 1) : CallerList(SampleItems(n))
    \/ \E o \in SpecOrders, l \in callerLists : Create(o, TestEmail, l, TestDate)
    \/ \E o \in SpecOrders, id \in KnownIds, l \in callerLists :
            Reconstitute(o, id, TestEmail, l, "PENDING", TestDate)
    \/ \E l \in callerLists : CallerPush(l, NewItem)
    \/ \E l \in callerLists : CallerPop(l)
    \/ \E o \in SpecOrders, item \in ItemRefs : AddItem(o, item)

SpecGiven == Init /\ [][NextGiven]_vars

\* the item objects found in the arrays the items getter has returned
ReturnedItems == UNION { { arrays[l][i] : i \in 1..Len(arrays[l]) } : l \in ReturnedLists }

\* the caller builds an Order from the sample items, reads its items, writes
\* quantities into item objects, adds items and asks for the total
NextTotal ==
    \/ \E n \in 0..(MaxLen - 1) : CallerList(SampleItems(n))
    \/ \E o \in SpecOrders, l \in callerLists : Create(o, TestEmail, l, TestDate)
    \/ \E o \in SpecOrders, id \in KnownIds, l \in callerLists :
           Reconstitute(o, id, TestEmail, l, "PENDING", TestDate)
    \/ \E o \in SpecOrders : GetItems(o)
    \/ \E item \in ReturnedItems, quantity \in CallerQuantities :
           CallerSetQuantity(item, quantity)
    \/ \E o \in SpecOrders, item \in ItemRefs : AddItem(o, item)
    \/ \E o \in SpecOrders : CalculateTotal(o)

SpecTotal == Init /\ [][NextTotal]_vars

\* the identifiers the caller can hand to reconstitute: the known ones and
\* the id of an Order it holds
HeldIds == KnownIds \cup { orders[o].id : o \in Built }

\* the statuses the caller reconstitutes with when it builds two Orders
PairStatuses == {"PENDING", "CONFIRMED"}

\* the item objects that are not among the sample items: a second object
\* for prod-1, and prod-3
OtherItems == {NewItem - 1, NewItem}

\* the caller builds two Orders from one list of sample items, works on
\* either and compares them
NextPair ==
    \/ \E n \in 1..(MaxLen - 1) : CallerList(SampleItems(n))
    \/ \E o \in OrderRefs, l \in callerLists : Create(o, TestEmail, l, TestDate)
    \/ \E o \in OrderRefs, id \in HeldIds, l \in callerLists, st \in PairStatuses :
           Reconstitute(o, id, TestEmail, l, st, TestDate)
    \/ \E o \in OrderRefs : Confirm(o)
    \/ \E o \in OrderRefs : Cancel(o)
    \/ \E o \in OrderRefs, item \in OtherItems : AddItem(o, item)
    \/ \E a \in OrderRefs, b \in OrderRefs : Equals(a, b)

SpecPair == Init /\ [][NextPair]_vars

\* the Emails the caller gives to Customers
SampleEmails == { Email(<<"a", "@", "a", ".", "a">>), Email(<<"b", "@", "a", ".", "a">>) }

\* the names and id values the caller writes: empty, blank, plain, padded,
\* with a space inside
Names == { << >>, <<" ">>, <<"a">>, <<" ", "a", " ">>, <<"b", " ", "b">> }

\* the identifiers the caller can hand to Customer.reconstitute
HeldCustomerIds == KnownIds \cup { customers[c].id : c \in BuiltCustomers }

\* the strings the caller asserts to be currencies
CurrencyCodes == {"EUR", "XXX"}

\* the caller builds Customers, renames, activates and deactivates them,
\* compares them, and calls the checks of CustomerId and Currency
NextCustomer ==
    \/ \E c \in CustomerRefs, name \in Names, email \in SampleEmails :
           CreateCustomer(c, name, email, TestDate)
    \/ \E c \in CustomerRefs, id \in HeldCustomerIds, name \in Names,
          email \in SampleEmails, isActive \in BOOLEAN :
           ReconstituteCustomer(c, id, name, email, isActive, TestDate)
    \/ \E c \in CustomerRefs, name \in Names : UpdateName(c, name)
    \/ \E c \in CustomerRefs, email \in SampleEmails : UpdateEmail(c, email)
    \/ \E c \in CustomerRefs : Deactivate(c)
    \/ \E c \in CustomerRefs : Activate(c)
    \/ \E a \in CustomerRefs, b \in CustomerRefs : EqualsCustomer(a, b)
    \/ \E value \in Names : CreateCustomerId(value)
    \/ \E value \in CurrencyCodes : AssertCurrency(value)

SpecCustomer == Init /\ [][NextCustomer]_vars

\* the amounts the caller passes to Price.create, in thousandths: negative,
\* zero, just under and on a half cent, a half cent whose double lies below
\* it (1.005), ten units, the largest amount whose
\* hundredfold is finite, a larger one, and the numbers that are not finite
Amounts ==
    {-1, 0, 124, 125, 1005, 10000, MaxNumber \div 100, MaxNumber \div 50,
     Infinity, NaN, -Infinity}

\* the quantities the caller passes to multiply
Quantities == {-1, 0, 1, 3, Fraction, NaN, Infinity}

\* the currencies of the Prices the caller builds
PriceCurrencies == {"EUR", "USD"}

\* the caller builds Prices, adds and multiplies them
NextPrice ==
    \/ \E amount \in Amounts, currency \in PriceCurrencies : CreatePrice(amount, currency)
    \/ \E a \in DOMAIN prices, b \in DOMAIN prices : AddPrices(a, b)
    \/ \E a \in DOMAIN prices, quantity \in Quantities : MultiplyPrice(a, quantity)

SpecPrice == Init /\ [][NextPrice]_vars

\* the characters the caller writes
Chars == {" ", "A", "a", "@", "."}

\* the strings the caller compares what it wrote with
OtherEmails == { <<"a", "@", "a", ".", "a">>, <<"a", "@", ".", "a", ".", "a">> }

\* the caller writes a string character by character, makes an Email of
\* it, makes an Email of that Email's value, and compares Emails
NextEmail ==
    \/ \E c \in Chars : Type(c)
    \/ CreateEmail
    \/ CreateEmailAgain
    \/ \E other \in OtherEmails : CompareEmails(other)

SpecEmail == Init /\ [][NextEmail]_vars

\* the caller and the InvalidStateError constructor: the entity names, states
\* and actions of Order and Customer, and allowed-states lists that are
\* omitted, empty, of one state and of several
EntityNames == {"Order", "Customer"}
States == OrderStatus \cup {"active", "inactive"}
Actions == {"confirm", "ship", "deliver", "cancel", "add items", "activate", "deactivate"}
AllowedLists ==
    {Undefined, << >>, <<"PENDING">>, <<"PENDING", "CONFIRMED">>, CancelAllowedStates}

NextError ==
    \E entityName \in EntityNames, currentState \in States,
       attemptedAction \in Actions, allowedStates \in AllowedLists :
        NewInvalidStateError(entityName, currentState, attemptedAction, allowedStates)

SpecError == Init /\ [][NextError]_vars

\* the caller builds an Order from the sample items and calls every method
\* and accessor of Order on it, writing nothing itself
NextFrame ==
    \/ \E n \in 1..(MaxLen - 1) : CallerList(SampleItems(n))
    \/ \E o \in SpecOrders, l \in callerLists : Create(o, TestEmail, l, TestDate)
    \/ \E o \in SpecOrders, id \in KnownIds, l \in callerLists, st \in OrderStatus :
           Reconstitute(o, id, TestEmail, l, st, TestDate)
    \/ \E o \in SpecOrders : Confirm(o)
    \/ \E o \in SpecOrders : Ship(o)
    \/ \E o \in SpecOrders : Deliver(o)
    \/ \E o \in SpecOrders : Cancel(o)
    \/ \E o \in SpecOrders, item \in ItemRefs : AddItem(o, item)
    \/ \E o \in SpecOrders : GetItems(o)
    \/ \E o \in SpecOrders : GetStatus(o)
    \/ \E o \in SpecOrders : CalculateTotal(o)

SpecFrame == Init /\ [][NextFrame]_vars

\* the instants the clock shows and the dates the caller reconstitutes with
Instants == {TestDate, TestDate + 1}

\* the statuses and the names the caller uses when it looks at identity
IdentityStatuses == {"PENDING", "SHIPPED"}
IdentityNames == { << >>, <<"a">>, <<"b", " ", "b">> }

\* the caller builds one Order and one Customer, with either Email and at
\* either instant, and calls every operation that changes them
NextIdentity ==
    \/ CallerList(SampleItems(1))
    \/ \E o \in SpecOrders, email \in SampleEmails, l \in callerLists, now \in Instants :
           Create(o, email, l, now)
    \/ \E o \in SpecOrders, id \in KnownIds, email \in SampleEmails, l \in callerLists,
          st \in IdentityStatuses, createdAt \in Instants :
           Reconstitute(o, id, email, l, st, createdAt)
    \/ \E o \in SpecOrders : Confirm(o)
    \/ \E o \in SpecOrders : Ship(o)
    \/ \E o \in SpecOrders : Deliver(o)
    \/ \E o \in SpecOrders : Cancel(o)
    \/ \E o \in SpecOrders, item \in OtherItems : AddItem(o, item)
    \/ \E name \in IdentityNames \ {<< >>}, email \in SampleEmails, now \in Instants :
           CreateCustomer("customer1", name, email, now)
    \/ \E id \in KnownIds, email \in SampleEmails, isActive \in BOOLEAN,
          createdAt \in Instants :
           ReconstituteCustomer("customer1", id, <<"a">>, email, isActive, createdAt)
    \/ \E name \in IdentityNames : UpdateName("customer1", name)
    \/ \E email \in SampleEmails : UpdateEmail("customer1", email)
    \/ Deactivate("customer1")
    \/ Activate("customer1")

SpecIdentity == Init /\ [][NextIdentity]_vars

\* the caller's item objects with unit prices of the magnitude of
\* Number.MAX_VALUE / 400 in place of the tests' prices
LargeItemPool ==
    [i \in ItemRefs |->
        [ItemPool[i] EXCEPT !.unitPrice =
            Price(ItemPool[i].unitPrice.amount * (MaxNumber \div 4000000),
                  ItemPool[i].unitPrice.currency)]]

InitLarge ==
    /\ recs = LargeItemPool
    /\ arrays = << >>
    /\ callerLists = {}
    /\ orders = [o \in OrderRefs |-> Null]
    /\ generated = 0
    /\ history = [o \in OrderRefs |-> NotBuilt]
    /\ last = [op |-> "none", order |-> "none", arg |-> 0, error |-> NoError,
               result |-> Null, pre |-> Null,
               world |-> [x \in OrderRefs |-> Null], lists |-> << >>]
    /\ customers = [c \in CustomerRefs |-> Null]
    /\ prices = << >>
    /\ raw = << >>

\* the caller builds an Order from items with large prices, adds items and
\* asks for the total
NextLarge ==
    \/ \E s \in ItemLists(MaxLen - 1) : CallerList(s)
    \/ \E o \in SpecOrders, l \in callerLists : Create(o, TestEmail, l, TestDate)
    \/ \E o \in SpecOrders, item \in ItemRefs : AddItem(o, item)
    \/ \E o \in SpecOrders : CalculateTotal(o)

SpecLarge == InitLarge /\ [][NextLarge]_vars

TypeOK ==
    /\ \A o \in Built : orders[o].status \in OrderStatus
    /\ \A a \in DOMAIN arrays : Len(arrays[a]) <= MaxLen

\* ------------------------------------------------------------------ claims
\* the transition table of the specification: the status confirm, ship and
\* deliver require, and the status they lead to
RequiredStatus(op) ==
    CASE op = "confirm" -> "PENDING"
      [] op = "ship" -> "CONFIRMED"
      [] op = "deliver" -> "SHIPPED"

TargetStatus(op) ==
    CASE op = "confirm" -> "CONFIRMED"
      [] op = "ship" -> "SHIPPED"
      [] op = "deliver" -> "DELIVERED"

Succeeded == last.error.kind = "none"
FailedWith(kind) == last.error.kind = kind

\* the last call was addItem and it returned normally
Added == last.op = "add items" /\ Succeeded

\* the positions of the receiver's list, before the last call, whose item
\* has the productId of the item passed to that call
Matching ==
    { i \in 1..Len(last.pre.items) :
        last.pre.recs[last.pre.items[i]].productId = last.pre.recs[last.arg].productId }

\* C1: confirm succeeds only from PENDING (to CONFIRMED), ship only from
\* CONFIRMED (to SHIPPED), deliver only from SHIPPED (to DELIVERED); every
\* other (status, action) pair among the three fails with InvalidStateError.
C1_ConfirmShipDeliver ==
    last.op \in {"confirm", "ship", "deliver"} =>
        IF last.pre.status = RequiredStatus(last.op)
        THEN Succeeded /\ orders[last.order].status = TargetStatus(last.op)
        ELSE FailedWith("InvalidStateError")

C1_Witness ==
    /\ last.op = "ship"
    /\ last.pre.status = "PENDING"
    /\ FailedWith("InvalidStateError")

\* C2: cancel moves an Order that is PENDING, CONFIRMED or SHIPPED to
\* CANCELLED and fails with InvalidStateError when it is DELIVERED or CANCELLED.
C2_Cancel ==
    last.op = "cancel" =>
        IF last.pre.status \in {"PENDING", "CONFIRMED", "SHIPPED"}
        THEN Succeeded /\ orders[last.order].status = "CANCELLED"
        ELSE FailedWith("InvalidStateError")

C2_Witness ==
    /\ last.op = "cancel"
    /\ last.pre.status = "SHIPPED"
    /\ orders[last.order].status = "CANCELLED"

\* C3: whenever confirm, ship, deliver, cancel or addItem fails with
\* InvalidStateError, the Order's status and items are exactly what they were
\* before the call.
C3_FailureChangesNothing ==
    FailedWith("InvalidStateError") =>
        /\ orders[last.order].status = last.pre.status
        /\ ItemsOf(last.order) = last.pre.items
        /\ ItemRecords(last.order) = Deref(last.pre.recs, last.pre.items)

C3_Witness ==
    /\ last.op = "add items"
    /\ FailedWith("InvalidStateError")
    /\ last.pre.status = "CONFIRMED"
    /\ Len(last.pre.items) >= 1

\* C4: on an Order built by create no status is skipped: CONFIRMED is entered
\* only from PENDING, SHIPPED only from CONFIRMED and DELIVERED only from
\* SHIPPED, so a DELIVERED order has been PENDING, CONFIRMED and SHIPPED, in
\* that order; and confirm, ship, deliver in that order do reach DELIVERED.
C4_NoStatusSkipped ==
    \A o \in Built :
        history[o].origin = "create" =>
            LET t == history[o].trail
            IN  /\ t[1] = "PENDING"
                /\ t[Len(t)] = orders[o].status
                /\ \A i \in 2..Len(t) :
                      /\ t[i] = "CONFIRMED" => t[i - 1] = "PENDING"
                      /\ t[i] = "SHIPPED" => t[i - 1] = "CONFIRMED"
                      /\ t[i] = "DELIVERED" => t[i - 1] = "SHIPPED"
                /\ orders[o].status = "DELIVERED" =>
                      t = <<"PENDING", "CONFIRMED", "SHIPPED", "DELIVERED">>

C4_Witness ==
    /\ last.op = "deliver"
    /\ Succeeded
    /\ history[last.order].origin = "create"
    /\ orders[last.order].status = "DELIVERED"

\* C5: addItem fails with InvalidStateError whenever the status is not PENDING
\* and succeeds when it is PENDING.
C5_AddItemOnlyWhenPending ==
    last.op = "add items" =>
        IF last.pre.status = "PENDING"
        THEN Succeeded
        ELSE FailedWith("InvalidStateError")

C5_Witness ==
    /\ last.op = "add items"
    /\ last.pre.status = "DELIVERED"
    /\ FailedWith("InvalidStateError")

\* C6: addItem of an item whose productId is already present adds the new
\* quantity to the existing line (the first one with that productId); the
\* number of items does not grow, the existing line keeps its unitPrice,
\* productName and productId, and all other lines (every other position of
\* the list, and every other item object) are unchanged.
C6_MergeIntoExistingLine ==
    (Added /\ Matching # {}) =>
        LET k == CHOOSE i \in Matching : \A j \in Matching : i <= j
            line == last.pre.items[k]
            old == last.pre.recs[line]
            new == last.pre.recs[last.arg]
        IN  /\ ItemsOf(last.order) = last.pre.items
            /\ recs[line].quantity = old.quantity + new.quantity
            /\ recs[line].unitPrice = old.unitPrice
            /\ recs[line].productName = old.productName
            /\ recs[line].productId = old.productId
            /\ \A r \in DOMAIN recs : r # line => recs[r] = last.pre.recs[r]
            /\ \A i \in 1..Len(last.pre.items) :
                  i # k =>
                      ItemRecords(last.order)[i] = last.pre.recs[last.pre.items[i]]

\* C7: addItem of an item whose productId is not present appends it as the last
\* element: one item more, every earlier item at its position with its content.
C7_AppendNewLine ==
    (Added /\ Matching = {}) =>
        /\ ItemsOf(last.order) = Append(last.pre.items, last.arg)
        /\ ItemRecords(last.order) =
              Append(Deref(last.pre.recs, last.pre.items), last.pre.recs[last.arg])

C7_Witness ==
    /\ Added
    /\ last.pre.items = <<1, 2>>
    /\ ItemsOf(last.order) = <<1, 2, 4>>

\* C8: the items of an Order built by create or reconstitute are never empty,
\* whatever operations follow.
C8_ItemsNeverEmpty ==
    \A o \in Built : Len(ItemsOf(o)) >= 1

\* C9: each productId appears at most once in the items of an Order built by
\* create from any non-empty item list, after any sequence of addItem calls.
C9_ProductIdsUnique ==
    \A o \in Built :
        history[o].origin = "create" =>
            \A i, j \in 1..Len(ItemsOf(o)) :
                i # j => ItemRecords(o)[i].productId # ItemRecords(o)[j].productId

\* C10: for an Order created from items with positive quantities, every item's
\* quantity is still positive after any sequence of addItem calls.
C10_QuantitiesStayPositive ==
    \A o \in Built :
        ( /\ history[o].origin = "create"
          /\ \A i \in 1..Len(history[o].initial) : history[o].initial[i].quantity > 0 )
        => \A i \in 1..Len(ItemsOf(o)) : ItemRecords(o)[i].quantity > 0

\* the last step was the caller changing an array it holds
CallerChangedList == last.op \in {"caller push", "caller pop", "caller reverse"}

\* order o shows the items it showed when the last call was made
SameItems(o) ==
    /\ ItemsOf(o) = last.world[o].items
    /\ ItemRecords(o) = Deref(last.world[o].recs, last.world[o].items)

\* C11: the items accessor returns a copy: adding to, removing from or
\* reordering an array it returned never changes the items of the Order.
C11_GetterReturnsCopy ==
    CallerChangedList =>
        \A o \in Built : last.arg \in history[o].returned => SameItems(o)

C11_Witness ==
    /\ last.op = "caller reverse"
    /\ last.arg \in history["order1"].returned
    /\ Len(ItemsOf("order1")) >= 2
    /\ arrays[last.arg] # ItemsOf("order1")

\* the last step changed the array that built order o
GivenListChanged(o) == CallerChangedList /\ last.arg = history[o].given

\* C13: Order.create takes a copy of the list it is given: appending to or
\* removing from the caller's list after create returned does not change
\* the items of the Order.
C13_CreateCopiesGivenList ==
    \A o \in Built :
        (history[o].origin = "create" /\ GivenListChanged(o)) => SameItems(o)

C13_Witness ==
    /\ history["order1"].origin = "create"
    /\ GivenListChanged("order1")
    /\ last.op = "caller push"
    /\ arrays[last.arg] # ItemsOf("order1")

\* C14: an Order built by reconstitute owns its item collection: appending
\* to or removing from the list passed to reconstitute does not change the
\* items of the Order, and addItem on the Order does not change that list.
C14_ReconstituteOwnsItems ==
    \A o \in Built :
        history[o].origin = "reconstitute" =>
            /\ GivenListChanged(o) => SameItems(o)
            /\ (Added /\ last.order = o) =>
                   arrays[history[o].given] = last.lists[history[o].given]

\* C18: Order.create fails with ValidationError when the item list is
\* empty, and for every non-empty list returns an Order whose status is
\* PENDING and whose items are the given items in the given order.
C18_CreateValidatesItems ==
    last.op = "create" =>
        IF Len(arrays[last.arg]) = 0
        THEN FailedWith("ValidationError") /\ last.order \notin Built
        ELSE /\ Succeeded
             /\ last.order \in Built
             /\ orders[last.order].status = "PENDING"
             /\ ItemsOf(last.order) = arrays[last.arg]

C18_Witness ==
    /\ last.op = "create"
    /\ Succeeded
    /\ orders["order1"].status = "PENDING"
    /\ Len(ItemsOf("order1")) >= 2
    /\ orders["order1"].items # last.arg

\* the item objects of the receiver as they are when the last call is made
ItemsBefore == Deref(last.pre.recs, last.pre.items)

\* the item objects of order o as they are when the last call is made
ItemsOfBefore(o) == Deref(last.world[o].recs, last.world[o].items)

\* the item objects the caller can reach through the arrays order o returned
ReachableItems(o) ==
    UNION { { arrays[l][i] : i \in 1..Len(arrays[l]) } : l \in history[o].returned }

\* C12: callers cannot change an Order through a returned reference: after
\* the caller writes the quantity of an item object obtained from the items
\* accessor, items and calculateTotal give what they gave before the write.
C12_ReturnedItemsAreCopies ==
    last.op = "caller set quantity" =>
        \A o \in Built :
            last.arg \in ReachableItems(o) =>
                /\ SameItems(o)
                /\ Total(ItemRecords(o)) = Total(ItemsOfBefore(o))

\* the currencies the items carry
Currencies(items) == { items[i].unitPrice.currency : i \in 1..Len(items) }

\* the sum over the items of unitPrice.amount * quantity, in cents
RECURSIVE SumOfLines(_)
SumOfLines(items) ==
    IF Len(items) = 0
    THEN 0
    ELSE Head(items).unitPrice.amount * Head(items).quantity + SumOfLines(Tail(items))

\* C16: when all items of the Order carry one currency and quantities that
\* are not negative, calculateTotal returns a Price in that currency whose
\* amount is the sum over the items of unitPrice.amount * quantity.
C16_TotalIsSumOfLines ==
    (/\ last.op = "calculateTotal"
     /\ Cardinality(Currencies(ItemsBefore)) <= 1
     /\ \A i \in 1..Len(ItemsBefore) : ItemsBefore[i].quantity >= 0) =>
        /\ Succeeded
        /\ last.result.amount = SumOfLines(ItemsBefore)
        /\ \A c \in Currencies(ItemsBefore) : last.result.currency = c

\* C17: calculateTotal fails with BusinessRuleViolationError whenever the
\* items of the Order carry more than one currency, and with no other error.
C17_MixedCurrenciesRejected ==
    (last.op = "calculateTotal" /\ Cardinality(Currencies(ItemsBefore)) > 1) =>
        FailedWith("BusinessRuleViolationError")

\* the last call was a method of an Order that changes it, and it returned
Changed == last.op \in {"confirm", "ship", "deliver", "cancel", "add items"} /\ Succeeded

\* C15: two Orders share no mutable state: for two Orders created from the
\* same item list, a successful operation on one leaves the status, the
\* items and the calculateTotal result of the other as they were.
C15_OrdersShareNothing ==
    Changed =>
        \A o \in Built \ {last.order} :
            (/\ history[o].origin = "create"
             /\ history[last.order].origin = "create"
             /\ history[o].given = history[last.order].given) =>
                /\ orders[o].status = last.world[o].status
                /\ SameItems(o)
                /\ Total(ItemRecords(o)) = Total(ItemsOfBefore(o))

\* C19: a.equals(b) is true exactly when the OrderIds the two Orders were
\* built with are equal, whatever their status and items and whatever was
\* done to either since.
C19_EqualsIsById ==
    last.op = "equals" =>
        last.result = (history[last.order].id = history[last.arg].id)

C19_Witness ==
    /\ last.op = "equals"
    /\ last.order # last.arg
    /\ last.result = TRUE
    /\ orders[last.order].status # orders[last.arg].status
    /\ Len(history[last.order].trail) > 1

\* C20: two Orders built by create are never equal, even when built from
\* the same arguments: their OrderIds differ and equals is false.
C20_CreatedOrdersDiffer ==
    \A a \in Built : \A b \in Built \ {a} :
        (history[a].origin = "create" /\ history[b].origin = "create") =>
            /\ orders[a].id # orders[b].id
            /\ (last.op = "equals" /\ last.order = a /\ last.arg = b) =>
                   last.result = FALSE

C20_Witness ==
    /\ last.op = "equals"
    /\ last.order = "order1" /\ last.arg = "order2"
    /\ history["order1"].origin = "create" /\ history["order2"].origin = "create"
    /\ history["order1"].given = history["order2"].given
    /\ ItemRecords("order1") = ItemRecords("order2")
    /\ last.result = FALSE

\* the kinds of error of the domain
Taxonomy ==
    {"ValidationError", "InvalidStateError", "BusinessRuleViolationError",
     "NotFoundError", "ConflictError"}

\* C21: every failure raised by a factory or a mutator of the core is one
\* of the five kinds of the taxonomy, never a generic error.
C21_ErrorsAreTyped == Succeeded \/ last.error.kind \in Taxonomy

\* the Customer the last call was made on, before and after it
CustomerBefore == last.before[last.customer]
CustomerAfter == customers[last.customer]

\* C22: a created Customer starts active; deactivate succeeds only when
\* active (then inactive) and fails with InvalidStateError when inactive;
\* activate succeeds only when inactive (then active) and fails with
\* InvalidStateError when active; a failed call leaves isActive as it was.
C22_ActivationMachine ==
    /\ (last.op = "Customer.create" /\ Succeeded) => CustomerAfter.isActive
    /\ last.op = "deactivate" =>
           IF CustomerBefore.isActive
           THEN Succeeded /\ ~CustomerAfter.isActive
           ELSE /\ FailedWith("InvalidStateError")
                /\ last.error.context.currentState = "inactive"
                /\ ~CustomerAfter.isActive
    /\ last.op = "activate" =>
           IF ~CustomerBefore.isActive
           THEN Succeeded /\ CustomerAfter.isActive
           ELSE /\ FailedWith("InvalidStateError")
                /\ last.error.context.currentState = "active"
                /\ CustomerAfter.isActive

C22_Witness ==
    /\ last.op = "activate"
    /\ Succeeded
    /\ CustomerAfter.born.origin = "create"
    /\ CustomerAfter.isActive

\* C23: the name of a Customer is never empty or whitespace-only, for a
\* Customer built by create or reconstitute and after any calls on it.
C23_NameNeverBlank ==
    \A c \in BuiltCustomers :
        /\ Len(customers[c].name) > 0
        /\ \E i \in 1..Len(customers[c].name) : customers[c].name[i] \notin Whitespace

\* t is str without its leading and trailing whitespace
IsTrimOf(t, str) ==
    /\ Len(t) > 0 => (t[1] \notin Whitespace /\ t[Len(t)] \notin Whitespace)
    /\ \E i \in 0..(Len(str) - Len(t)) :
           /\ SubSeq(str, i + 1, i + Len(t)) = t
           /\ \A k \in 1..Len(str) :
                  (k <= i \/ k > i + Len(t)) => str[k] \in Whitespace

\* C24: updateName, in either activation state, fails with ValidationError
\* and leaves the name as it was when the new name is empty or whitespace
\* only, and otherwise sets the name to the trimmed new name.
C24_UpdateNameTrims ==
    last.op = "updateName" =>
        IF IsTrimOf(<< >>, last.arg)
        THEN FailedWith("ValidationError") /\ CustomerAfter.name = CustomerBefore.name
        ELSE Succeeded /\ IsTrimOf(CustomerAfter.name, last.arg)

C24_Witness ==
    /\ last.op = "updateName"
    /\ Succeeded
    /\ ~CustomerAfter.isActive
    /\ CustomerAfter.name # last.arg
    /\ CustomerAfter.name # CustomerBefore.name

\* C25: a.equals(b) on Customers is true exactly when the CustomerIds they
\* were built with are equal, whatever their name, email and isActive; two
\* Customers built by create are never equal.
C25_CustomerEqualsIsById ==
    /\ last.op = "Customer.equals" =>
           last.result = (customers[last.customer].born.id = customers[last.arg].born.id)
    /\ \A a \in BuiltCustomers : \A b \in BuiltCustomers \ {a} :
           (customers[a].born.origin = "create" /\ customers[b].born.origin = "create") =>
               /\ customers[a].id # customers[b].id
               /\ (last.op = "Customer.equals" /\ last.customer = a /\ last.arg = b) =>
                      last.result = FALSE

C25_Witness ==
    /\ last.op = "Customer.equals"
    /\ last.customer # last.arg
    /\ last.result = TRUE
    /\ customers[last.customer].name # customers[last.arg].name
    /\ customers[last.customer].isActive # customers[last.arg].isActive
    /\ customers[last.customer].email # customers[last.arg].email

\* the numbers that are not finite
NotFinite == {NaN, Infinity, -Infinity}

\* cents is thousandths / 10 rounded to the nearest whole, a half going up
IsRoundedHalfUp(cents, thousandths) ==
    10 * cents <= thousandths + 5 /\ thousandths + 5 < 10 * cents + 10

\* C26: Price.create fails with ValidationError exactly when the amount is
\* negative or not finite; for every other amount, zero included, it returns
\* a Price with the given currency whose amount is round(amount * 100) / 100,
\* a half cent rounded up (Infinity when amount * 100 is beyond the largest
\* number).
C26_CreateRoundsToCents ==
    last.op = "Price.create" =>
        IF last.arg.amount \in NotFinite \/ last.arg.amount < 0
        THEN FailedWith("ValidationError")
        ELSE /\ Succeeded
             /\ last.result.currency = last.arg.currency
             /\ IF last.arg.amount <= MaxNumber \div 100
                THEN IsRoundedHalfUp(last.result.amount, last.arg.amount)
                ELSE last.result.amount = Infinity

C26_Witness ==
    /\ last.op = "Price.create"
    /\ last.arg.amount = 125
    /\ last.result = Price(13, "EUR")

\* the Price objects the caller holds or has just been given
ObtainedPrices ==
    { prices[a] : a \in DOMAIN prices } \cup
    (IF last.op \in {"Price.create", "add", "multiply"} /\ Succeeded
     THEN {last.result} ELSE {})

\* C27: every Price obtained through create, add and multiply has a finite
\* amount that is not negative, in whole cents; add and multiply leave the
\* Prices they are applied to as they were.
C27_PricesStayValid ==
    /\ \A price \in ObtainedPrices :
           price.amount \notin NotFinite /\ price.amount >= 0
    /\ last.op \in {"add", "multiply"} =>
           \A a \in DOMAIN last.before : prices[a] = last.before[a]

\* C28: a.add(b) fails with BusinessRuleViolationError (rule CurrencyMatch)
\* exactly when the currencies differ; otherwise it returns a Price in the
\* shared currency whose amount is a.amount + b.amount.
C28_AddSumsAmounts ==
    last.op = "add" =>
        IF last.before[last.price].currency # last.before[last.arg].currency
        THEN FailedWith("BusinessRuleViolationError") /\ last.error.ruleName = "CurrencyMatch"
        ELSE /\ Succeeded
             /\ last.result.currency = last.before[last.price].currency
             /\ last.result.amount =
                    last.before[last.price].amount + last.before[last.arg].amount

\* C29: multiply fails with ValidationError exactly when the quantity is
\* negative or not an integer; for every other quantity, zero included, it
\* returns a Price in the same currency whose amount is amount x quantity.
C29_MultiplyScalesAmount ==
    last.op = "multiply" =>
        IF last.arg \in NotFinite \cup {Fraction} \/ last.arg < 0
        THEN FailedWith("ValidationError")
        ELSE /\ Succeeded
             /\ last.result.currency = last.before[last.price].currency
             /\ last.result.amount = last.before[last.price].amount * last.arg

\* the contiguous pieces of a string
Pieces(str) == { SubSeq(str, i, j) : i \in 1..(Len(str) + 1), j \in 0..Len(str) }

\* a capital letter with its small letter
CasePairs == { {"A", "a"}, {"B", "b"} }
Capitals == {"A", "B"}

\* two strings that differ at most in the case of their letters
SameIgnoringCase(s, t) ==
    /\ Len(s) = Len(t)
    /\ \A i \in 1..Len(s) : s[i] = t[i] \/ {s[i], t[i]} \in CasePairs

\* v is str trimmed and lower-cased
IsNormalOf(v, str) ==
    /\ \A i \in 1..Len(v) : v[i] \notin Capitals
    /\ \E t \in Pieces(str) : IsTrimOf(t, str) /\ SameIgnoringCase(v, t)

\* the shape local@domain.label: one at sign, no whitespace, something
\* before the at sign, and after it a dot with something on both sides
HasShape(str) ==
    /\ Cardinality({ k \in 1..Len(str) : str[k] = "@" }) = 1
    /\ \A k \in 1..Len(str) : str[k] \notin Whitespace
    /\ \E at \in 2..Len(str), dot \in 1..(Len(str) - 1) :
           str[at] = "@" /\ str[dot] = "." /\ dot > at + 1

\* C30: Email.create stores the input trimmed and lower-cased and fails
\* with ValidationError when that value is empty or has not the shape
\* local@domain.label; Email.create(e.value).value = e.value; two Emails
\* are equal exactly when their normalized values are equal.
C30_EmailIsNormalized ==
    /\ last.op = "Email.create" =>
           \/ /\ Succeeded
              /\ IsNormalOf(last.result.value, last.arg)
              /\ HasShape(last.result.value)
           \/ /\ FailedWith("ValidationError")
              /\ \A t \in Pieces(last.arg) :
                     IsTrimOf(t, last.arg) => (Len(t) = 0 \/ ~HasShape(t))
    /\ last.op = "Email.create(e.value)" =>
           Succeeded /\ last.result.value = last.arg
    /\ last.op = "Email.equals" =>
           last.result =
               (\E t \in Pieces(last.arg[1]), u \in Pieces(last.arg[2]) :
                    /\ IsTrimOf(t, last.arg[1])
                    /\ IsTrimOf(u, last.arg[2])
                    /\ SameIgnoringCase(t, u))

C30_Witness ==
    /\ last.op = "Email.equals"
    /\ last.result = TRUE
    /\ last.arg[1] = <<" ", "A", "@", "a", ".", "a">>
    /\ last.arg[2] = <<"a", "@", "a", ".", "a">>


\* the allowed-states list the transition table gives for a failed call
TableAllowedStates(op, status) ==
    CASE op = "confirm" -> <<"PENDING">>
      [] op = "add items" -> <<"PENDING">>
      [] op = "ship" -> <<"CONFIRMED">>
      [] op = "deliver" -> <<"SHIPPED">>
      [] op = "cancel" /\ status = "DELIVERED" -> <<"PENDING", "CONFIRMED", "SHIPPED">>
      [] op = "cancel" /\ status # "DELIVERED" -> Undefined

GuardedOps == {"confirm", "ship", "deliver", "cancel", "add items"}

\* C31: every InvalidStateError raised by an Order guard carries the entity
\* name Order, the status the Order had when the call was made, the attempted
\* action and the allowed-states list of the transition table: [PENDING] for
\* confirm and addItem, [CONFIRMED] for ship, [SHIPPED] for deliver,
\* [PENDING, CONFIRMED, SHIPPED] for cancel on a DELIVERED order and no list
\* for cancel on a CANCELLED order.
C31_GuardErrorsCarryContext ==
    (last.op \in GuardedOps /\ FailedWith("InvalidStateError")) =>
        /\ last.error.context.entityName = "Order"
        /\ last.error.context.currentState = last.pre.status
        /\ last.error.context.attemptedAction = last.op
        /\ last.error.context.allowedStates = TableAllowedStates(last.op, last.pre.status)

C31_Witness ==
    /\ last.op = "cancel"
    /\ last.pre.status = "DELIVERED"
    /\ FailedWith("InvalidStateError")
    /\ last.error.context.allowedStates = <<"PENDING", "CONFIRMED", "SHIPPED">>


\* C32: the message of an InvalidStateError is "Cannot {action} {entity} in
\* state '{state}'", followed by ". Allowed states: {list}" if and only if an
\* allowedStates list was given to the constructor (the list joined with
\* ", "); its context carries entityName, currentState, attemptedAction and
\* allowedStates as given.
C32_InvalidStateMessage ==
    last.op = "new InvalidStateError" =>
        LET a == last.arg
            base == "Cannot " \o a.attemptedAction \o " " \o a.entityName
                    \o " in state '" \o a.currentState \o "'"
        IN  /\ last.result.kind = "InvalidStateError"
            /\ last.result.message =
                   IF a.allowedStates # Undefined
                   THEN base \o ". Allowed states: " \o Join(a.allowedStates, ", ")
                   ELSE base
            /\ last.result.context = a

C32_Witness ==
    /\ last.op = "new InvalidStateError"
    /\ last.arg.allowedStates = <<"PENDING", "CONFIRMED">>
    /\ last.result.message =
           "Cannot cancel Order in state 'DELIVERED'. Allowed states: PENDING, CONFIRMED"


Terminal == {"DELIVERED", "CANCELLED"}

\* the Orders that were DELIVERED or CANCELLED when the last call was made
WereTerminal ==
    { o \in Built : last.world[o] # Null /\ last.world[o].status \in Terminal }

\* C33: DELIVERED and CANCELLED are terminal: once an Order is DELIVERED or
\* CANCELLED, every call of confirm, ship, deliver, cancel or addItem on it
\* fails with InvalidStateError, and whatever is called next, its status, its
\* item list and its item objects are what they were before the call.
C33_TerminalIsFinal ==
    \A o \in WereTerminal :
        /\ (last.order = o /\ last.op \in GuardedOps) => FailedWith("InvalidStateError")
        /\ orders[o].status = last.world[o].status
        /\ ItemsOf(o) = last.world[o].items
        /\ ItemRecords(o) = Deref(last.world[o].recs, last.world[o].items)


StatusOps == {"confirm", "ship", "deliver", "cancel"}

\* the status a successful call of a status operation leaves
StatusAfter(op) == IF op = "cancel" THEN "CANCELLED" ELSE TargetStatus(op)

\* the position of a status in the life of an Order
Rank(status) ==
    CASE status = "PENDING" -> 1
      [] status = "CONFIRMED" -> 2
      [] status = "SHIPPED" -> 3
      [] status = "DELIVERED" -> 4
      [] status = "CANCELLED" -> 5

\* the statuses Order o had had when the last call was made
TrailBefore(o) ==
    LET t == history[o].trail
    IN  IF last.order = o /\ last.op \in StatusOps /\ Succeeded
        THEN SubSeq(t, 1, Len(t) - 1)
        ELSE t

\* C34: on an Order built by create the status never moves backwards and
\* each transition happens at most once: each of confirm, ship, deliver and
\* cancel succeeds at most once (no status is entered twice), a call of an
\* action that has already succeeded fails with InvalidStateError, and at most
\* three status changes occur.
C34_TransitionsHappenOnce ==
    \A o \in Built :
        history[o].origin = "create" =>
            LET t == history[o].trail
            IN  /\ \A i \in 1..Len(t) : \A j \in (i + 1)..Len(t) :
                      Rank(t[i]) < Rank(t[j])
                /\ Len(t) <= 4
                /\ (last.order = o /\ last.op \in StatusOps
                     /\ \E i \in 1..Len(TrailBefore(o)) :
                            TrailBefore(o)[i] = StatusAfter(last.op))
                   => FailedWith("InvalidStateError")

C34_Witness ==
    /\ last.op = "cancel"
    /\ history[last.order].origin = "create"
    /\ history[last.order].trail = <<"PENDING", "CONFIRMED", "SHIPPED", "CANCELLED">>
    /\ last.pre.status = "CANCELLED"
    /\ FailedWith("InvalidStateError")


\* the receiver of the last call has the item list and item objects it had
ItemsKept ==
    /\ ItemsOf(last.order) = last.pre.items
    /\ ItemRecords(last.order) = Deref(last.pre.recs, last.pre.items)

\* the receiver of the last call has the status it had
StatusKept == orders[last.order].status = last.pre.status

\* C35: Order operations touch only their own part of the state: confirm,
\* ship, deliver and cancel never change items; addItem never changes status;
\* calculateTotal and the items and status accessors change neither.
C35_OperationsKeepTheRest ==
    /\ last.op \in StatusOps => ItemsKept
    /\ last.op = "add items" => StatusKept
    /\ last.op \in {"calculateTotal", "items", "status"} => (StatusKept /\ ItemsKept)

C35_Witness ==
    /\ last.op = "cancel"
    /\ Succeeded
    /\ last.pre.status = "SHIPPED"
    /\ Len(last.pre.items) >= 2
    /\ ItemsKept


\* C36: an entity's identity never changes: the id, customerEmail and
\* createdAt of an Order, and the id and createdAt of a Customer, are after any
\* sequence of successful or failed operations what they were at create or
\* reconstitute.
C36_IdentityNeverChanges ==
    /\ \A o \in Built :
           /\ orders[o].id = history[o].id
           /\ orders[o].customerEmail = history[o].customerEmail
           /\ orders[o].createdAt = history[o].createdAt
    /\ \A c \in BuiltCustomers :
           /\ customers[c].id = customers[c].born.id
           /\ customers[c].createdAt = customers[c].born.createdAt

C36_Witness ==
    /\ last.op = "deliver"
    /\ Succeeded
    /\ history[last.order].origin = "create"
    /\ orders[last.order].createdAt = TestDate + 1
    /\ orders[last.order].customerEmail # TestEmail
    /\ "customer1" \in BuiltCustomers
    /\ ~customers["customer1"].isActive
    /\ customers["customer1"].name = <<"b", " ", "b">>


\* C37: Customer operations are independent of each other: updateName and
\* updateEmail are not restricted by the activation state (updateName
\* succeeds for every name that is not blank and updateEmail always, active
\* or not) and never change isActive; updateEmail replaces the email and
\* changes nothing else; activate and deactivate never change name or email.
C37_CustomerOperationsIndependent ==
    /\ last.op = "updateName" =>
           /\ ~IsTrimOf(<< >>, last.arg) => Succeeded
           /\ ~FailedWith("InvalidStateError")
           /\ CustomerAfter.isActive = CustomerBefore.isActive
    /\ last.op = "updateEmail" =>
           /\ Succeeded
           /\ customers = [last.before EXCEPT ![last.customer].email = last.arg]
    /\ last.op \in {"activate", "deactivate"} =>
           /\ CustomerAfter.name = CustomerBefore.name
           /\ CustomerAfter.email = CustomerBefore.email

C37_Witness ==
    /\ last.op = "updateEmail"
    /\ ~CustomerBefore.isActive
    /\ Succeeded
    /\ CustomerAfter.email # CustomerBefore.email
    /\ ~CustomerAfter.isActive


\* the Orders built by create from items that carry a single currency
CreatedInOneCurrency ==
    { o \in Built : /\ history[o].origin = "create"
                    /\ Cardinality(Currencies(history[o].initial)) = 1 }

\* C38: the items of an Order share one currency: for an Order created from
\* items of a single currency, after any sequence of addItem calls all items
\* carry that currency, and calculateTotal on it never fails with
\* BusinessRuleViolationError.
C38_ItemsShareOneCurrency ==
    \A o \in CreatedInOneCurrency :
        /\ Currencies(ItemRecords(o)) = Currencies(history[o].initial)
        /\ (last.op = "calculateTotal" /\ last.order = o) =>
               ~FailedWith("BusinessRuleViolationError")

====
